---- MODULE Spec2Model ----
(***************************************************************************)
(* Model of src/mongo/util/version.cpp: the process-wide version-info      *)
(* registry (enable / instance), the fallback provider, the major.minor    *)
(* comparator (isSameMajorVersion) and the two build-info reporters        *)
(* (appendBuildInfo, logBuildInfo).                                        *)
(***************************************************************************)
EXTENDS Integers, Sequences, FiniteSets, TLC

VARIABLES
    globalVersionInfo,    \* the registry pointer (version.cpp:104)
    fallbackVersionInfo,  \* the function-local static of instance() (version.cpp:118)
    heap,                 \* addresses of the FallbackVersionInfo objects made by `new`
    pc,                   \* "running", "fassertFailed" (diagnostic logged), "terminated"
    log,                  \* the records handed to the log sink, in emission order
    history,              \* the registry calls made so far, each with what it returned
    build,                \* the build configuration (preprocessor symbols, constants)
    self,                 \* the provider object a member function is called on
    otherVersion,         \* the string a caller hands to isSameMajorVersion
    sameMajor,            \* what isSameMajorVersion returned
    result                \* the BSONObjBuilder appendBuildInfo was handed

vars == <<globalVersionInfo, fallbackVersionInfo, heap, pc, log, history,
          build, self, otherVersion, sameMajor, result>>

(***************************************************************************)
(* Bounds                                                                  *)
(***************************************************************************)
NumProviders == 2     \* provider objects the host may register
MaxCalls == 4         \* registry calls explored per run
MaxFields == 3        \* build-info fields of a provider
MaxLen == 6           \* length of the strings handed to isSameMajorVersion

(***************************************************************************)
(* Providers                                                               *)
(***************************************************************************)
nullptr == 0

ProviderPtrs == 1..NumProviders

NotEnabledAction == {"kFallback", "kAbortProcess"}

FallbackVersionInfo_GitUnknown ==
    [majorVersion |-> 0, minorVersion |-> 0, patchVersion |-> 0, extraVersion |-> 0,
     version |-> "unknown", gitVersion |-> "unknown", modules |-> <<"unknown">>,
     allocator |-> "unknown", jsEngine |-> "unknown", targetMinOS |-> "unknown",
     buildInfo |-> <<>>]

FallbackVersionInfo ==
    [majorVersion |-> 0, minorVersion |-> 0, patchVersion |-> 0, extraVersion |-> 0,
     version |-> "unknown", gitVersion |-> "none", modules |-> <<"unknown">>,
     allocator |-> "unknown", jsEngine |-> "unknown", targetMinOS |-> "unknown",
     buildInfo |-> <<>>]

\* A provider object supplied by the host (any implementation of the interface).
HostVersionInfo(p) ==
    [majorVersion |-> 4, minorVersion |-> p, patchVersion |-> 1, extraVersion |-> 0,
     version |-> "4.x.1", gitVersion |-> "abc123", modules |-> <<>>,
     allocator |-> "tcmalloc", jsEngine |-> "mozjs", targetMinOS |-> "Windows 7",
     buildInfo |-> <<>>]

\* What a provider pointer points to.
Deref(ptr) == IF ptr \in heap THEN FallbackVersionInfo ELSE HostVersionInfo(ptr)

(***************************************************************************)
(* Registry                                                                *)
(***************************************************************************)
\* The address `new FallbackVersionInfo` returns: one not in use.
New(hp) == NumProviders + 1 + Cardinality(hp)

\* static const auto& fallbackVersionInfo = *new FallbackVersionInfo;
\* the initialiser of a function-local static runs on the first pass only.
StaticInit_EveryCall(fv, hp) == [ref |-> New(hp), heap |-> hp \cup {New(hp)}]

StaticInit(fv, hp) ==
    IF fv = nullptr
    THEN [ref |-> New(hp), heap |-> hp \cup {New(hp)}]
    ELSE [ref |-> fv, heap |-> hp]

FatalDiagnostic ==
    [id |-> 23405, severity |-> "fatal",
     msg |-> "Terminating because valid version info has not been configured"]

LogFatal_Silent(lg) == lg

LogFatal(lg) == Append(lg, FatalDiagnostic)

EnableValue_FirstWins(cur, handler) == IF cur = nullptr THEN handler ELSE cur

EnableValue_Toggle(cur, handler) == IF cur = handler THEN nullptr ELSE handler

\* globalVersionInfo = handler;
EnableValue(cur, handler) == handler

Enable(handler) ==
    /\ pc = "running"
    /\ Len(history) < MaxCalls
    /\ globalVersionInfo' = EnableValue(globalVersionInfo, handler)
    /\ history' = Append(history, [op |-> "enable", handler |-> handler])
    /\ UNCHANGED <<fallbackVersionInfo, heap, pc, log,
                   build, self, otherVersion, sameMajor, result>>

Instance(action) ==
    /\ pc = "running"
    /\ Len(history) < MaxCalls
    /\ IF globalVersionInfo # nullptr
       THEN /\ history' = Append(history, [op |-> "instance", action |-> action,
                                           returned |-> TRUE, ret |-> globalVersionInfo])
            /\ UNCHANGED <<fallbackVersionInfo, heap, pc, log>>
       ELSE IF action = "kFallback"
       THEN /\ fallbackVersionInfo' = StaticInit(fallbackVersionInfo, heap).ref
            /\ heap' = StaticInit(fallbackVersionInfo, heap).heap
            /\ history' = Append(history, [op |-> "instance", action |-> action,
                                           returned |-> TRUE,
                                           ret |-> fallbackVersionInfo'])
            /\ UNCHANGED <<pc, log>>
       ELSE /\ log' = LogFatal(log)
            /\ pc' = "fassertFailed"
            /\ history' = Append(history, [op |-> "instance", action |-> action,
                                           returned |-> FALSE, ret |-> nullptr])
            /\ UNCHANGED <<fallbackVersionInfo, heap>>
    /\ UNCHANGED <<globalVersionInfo, build, self, otherVersion, sameMajor, result>>

\* fassertFailed(40278): the process ends; nothing runs afterwards.
FassertFailed ==
    /\ pc = "fassertFailed"
    /\ pc' = "terminated"
    /\ UNCHANGED <<globalVersionInfo, fallbackVersionInfo, heap, log, history,
                   build, self, otherVersion, sameMajor, result>>

NoBuild == [win32 |-> FALSE, ssl |-> "none", sslRunning |-> "", sslCompiled |-> "",
            kDebugBuild |-> FALSE, sizeofVoidPtr |-> 8]

(***************************************************************************)
(* Version comparator                                                      *)
(***************************************************************************)
\* A string is a sequence of characters; these are the characters explored.
Alphabet == {"0", "2", "4", ".", "x"}

Strings == UNION {[1..n -> Alphabet] : n \in 0..MaxLen}

\* \d of the pattern: an ASCII decimal digit.
IsDigit(c) == c \in {"0", "1", "2", "3", "4", "5", "6", "7", "8", "9"}

DigitValue(c) ==
    CASE c = "0" -> 0 [] c = "1" -> 1 [] c = "2" -> 2 [] c = "3" -> 3 [] c = "4" -> 4
      [] c = "5" -> 5 [] c = "6" -> 6 [] c = "7" -> 7 [] c = "8" -> 8 [] c = "9" -> 9

\* The number of digits at position `from` and after it, up to the first
\* character that is no digit: what a greedy \d+ consumes.
RECURSIVE DigitRun(_, _)
DigitRun(s, from) ==
    IF from <= Len(s) /\ IsDigit(s[from]) THEN 1 + DigitRun(s, from + 1) ELSE 0

NoMatch == [matched |-> FALSE, g1 |-> <<>>, g2 |-> <<>>]

\* The pattern without its last \. (a plausible slip).
RegexMatch_NoTrailingDot(s) ==
    LET n1 == DigitRun(s, 1)
        n2 == DigitRun(s, n1 + 2)
    IN IF /\ n1 >= 1
          /\ n1 + 1 <= Len(s) /\ s[n1 + 1] = "."
          /\ n2 >= 1
       THEN [matched |-> TRUE, g1 |-> SubSeq(s, 1, n1),
             g2 |-> SubSeq(s, n1 + 2, n1 + 1 + n2)]
       ELSE NoMatch

\* pcrecpp::RE ver_regex("^(\\d+)\\.(\\d+)\\."): the match at the start of s,
\* with its two capture groups.
RegexMatch(s) ==
    LET n1 == DigitRun(s, 1)
        n2 == DigitRun(s, n1 + 2)
    IN IF /\ n1 >= 1
          /\ n1 + 1 <= Len(s) /\ s[n1 + 1] = "."
          /\ n2 >= 1
          /\ n1 + n2 + 2 <= Len(s) /\ s[n1 + n2 + 2] = "."
       THEN [matched |-> TRUE, g1 |-> SubSeq(s, 1, n1),
             g2 |-> SubSeq(s, n1 + 2, n1 + 1 + n2)]
       ELSE NoMatch

\* The conversion of a capture group into an int: base 10, most significant
\* digit first.
RECURSIVE ParseDigits(_, _)
ParseDigits(d, acc) ==
    IF d = <<>> THEN acc ELSE ParseDigits(Tail(d), acc * 10 + DigitValue(Head(d)))

IntMax == 2147483647

\* ver_regex.PartialMatch(otherVersion, &major, &minor): the values of major
\* and minor afterwards. An argument is written only when the pattern matched,
\* its group fits an int and every argument before it was written.
PartialMatch(s, major, minor) ==
    LET m == RegexMatch(s)
        v1 == ParseDigits(m.g1, 0)
        v2 == ParseDigits(m.g2, 0)
    IN IF ~m.matched \/ v1 > IntMax THEN [major |-> major, minor |-> minor]
       ELSE IF v2 > IntMax THEN [major |-> v1, minor |-> minor]
       ELSE [major |-> v1, minor |-> v2]

IsSameMajorVersion(v, s) ==
    LET m == PartialMatch(s, -1, -1)
    IN IF m.major = -1 \/ m.minor = -1
       THEN FALSE
       ELSE m.major = v.majorVersion /\ m.minor = v.minorVersion

\* A caller hands the string it holds to isSameMajorVersion of `self`.
CallIsSameMajorVersion ==
    /\ sameMajor' = IsSameMajorVersion(self, otherVersion)
    /\ history' = <<[op |-> "isSameMajorVersion"]>>
    /\ UNCHANGED <<globalVersionInfo, fallbackVersionInfo, heap, pc, log,
                   build, self, otherVersion, result>>

\* The providers the comparator is explored on.
MajorVersions == {4, 42}

MinorVersions == {2, 20}

ComparedVersionInfo(major, minor) ==
    [majorVersion |-> major, minorVersion |-> minor, patchVersion |-> 1,
     extraVersion |-> 0, version |-> "r", gitVersion |-> "abc123", modules |-> <<>>,
     allocator |-> "tcmalloc", jsEngine |-> "mozjs", targetMinOS |-> "Windows 7",
     buildInfo |-> <<>>]

InitCompare ==
    /\ globalVersionInfo = nullptr
    /\ fallbackVersionInfo = nullptr
    /\ heap = {}
    /\ pc = "running"
    /\ log = <<>>
    /\ history = <<>>
    /\ build = NoBuild
    /\ self \in {FallbackVersionInfo}
                  \cup {ComparedVersionInfo(a, b) : a \in MajorVersions, b \in MinorVersions}
    /\ otherVersion \in Strings
    /\ sameMajor = FALSE
    /\ result = <<>>

NextCompare == CallIsSameMajorVersion

SpecCompare == InitCompare /\ [][NextCompare]_vars

(***************************************************************************)
(* Reporter                                                                *)
(***************************************************************************)
\* One element of a BSON document or one attribute of a log record. A
\* document is the sequence of its elements, in append order.
Elem(key, value) == [k |-> key, v |-> value]

BSONObjMaxUserSize == 16 * 1024 * 1024

\* openSSLVersion(prefix, suffix)
OpenSSLVersion(b, prefix, suffix) ==
    IF b.ssl # "openssl" THEN "" ELSE prefix \o b.sslRunning \o suffix

TargetMinOSField_Always(v, b) == <<Elem("targetMinOS", v.targetMinOS)>>

\* #if defined(_WIN32) << "targetMinOS" << targetMinOS() #endif
TargetMinOSField(v, b) ==
    IF b.win32 THEN <<Elem("targetMinOS", v.targetMinOS)>> ELSE <<>>

VersionArray_ExtraFirst(v) ==
    <<v.extraVersion, v.majorVersion, v.minorVersion, v.patchVersion>>

\* versionArray << majorVersion() << minorVersion() << patchVersion() << extraVersion();
VersionArray(v) ==
    <<v.majorVersion, v.minorVersion, v.patchVersion, v.extraVersion>>

OpensslInfo_RunningOnly(b) ==
    CASE b.ssl = "openssl" -> <<Elem("running", OpenSSLVersion(b, "", ""))>>
      [] b.ssl = "windows" -> <<Elem("running", "Windows SChannel")>>
      [] b.ssl = "apple" -> <<Elem("running", "Apple Secure Transport")>>
      [] b.ssl = "none" -> <<Elem("running", "disabled")>>

\* The openssl sub-document, by TLS provider of the build.
OpensslInfo(b) ==
    CASE b.ssl = "openssl" ->
            <<Elem("running", OpenSSLVersion(b, "", "")),
              Elem("compiled", b.sslCompiled)>>
      [] b.ssl = "windows" -> <<Elem("running", "Windows SChannel")>>
      [] b.ssl = "apple" -> <<Elem("running", "Apple Secure Transport")>>
      [] b.ssl = "none" ->
            <<Elem("running", "disabled"), Elem("compiled", "disabled")>>

RECURSIVE BuildEnvironment_SkipEmpty(_)
BuildEnvironment_SkipEmpty(bi) ==
    IF bi = <<>> THEN <<>>
    ELSE IF Head(bi).inBuildInfo /\ Head(bi).value # ""
    THEN <<Elem(Head(bi).key, Head(bi).value)>> \o BuildEnvironment_SkipEmpty(Tail(bi))
    ELSE BuildEnvironment_SkipEmpty(Tail(bi))

\* for (auto&& e : buildInfo()) if (e.inBuildInfo) env.append(e.key, e.value);
RECURSIVE BuildEnvironment(_)
BuildEnvironment(bi) ==
    IF bi = <<>> THEN <<>>
    ELSE IF Head(bi).inBuildInfo
    THEN <<Elem(Head(bi).key, Head(bi).value)>> \o BuildEnvironment(Tail(bi))
    ELSE BuildEnvironment(Tail(bi))

\* What appendBuildInfo appends to the builder it is handed.
AppendBuildInfo(v, b, builder) ==
    builder
    \o <<Elem("version", v.version), Elem("gitVersion", v.gitVersion)>>
    \o TargetMinOSField(v, b)
    \o <<Elem("modules", v.modules), Elem("allocator", v.allocator),
         Elem("javascriptEngine", v.jsEngine), Elem("sysInfo", "deprecated")>>
    \o <<Elem("versionArray", VersionArray(v))>>
    \o <<Elem("openssl", OpensslInfo(b))>>
    \o <<Elem("buildEnvironment", BuildEnvironment(v.buildInfo))>>
    \o <<Elem("bits", b.sizeofVoidPtr * 8), Elem("debug", b.kDebugBuild),
         Elem("maxBsonObjectSize", BSONObjMaxUserSize)>>

\* envFilter: bi.inBuildInfo && !bi.value.empty()
EnvFilter(bi) == bi.inBuildInfo /\ bi.value # ""

\* envFormatter: BSONObjBuilder{}.append(bi.key, bi.value).obj()
EnvFormatter(bi) == <<Elem(bi.key, bi.value)>>

\* The transform iterator over the filter iterator over build, run from begin
\* to end.
RECURSIVE LogEnvironment(_)
LogEnvironment(bi) ==
    IF bi = <<>> THEN <<>>
    ELSE IF EnvFilter(Head(bi))
    THEN <<EnvFormatter(Head(bi))>> \o LogEnvironment(Tail(bi))
    ELSE LogEnvironment(Tail(bi))

\* The record logBuildInfo emits.
BuildInfoRecord(v, b) ==
    [id |-> 23403, msg |-> "Build Info",
     attrs |-> <<Elem("version", v.version), Elem("gitVersion", v.gitVersion)>>
               \o (IF b.ssl = "openssl"
                   THEN <<Elem("openSSLVersion", OpenSSLVersion(b, "", ""))>>
                   ELSE <<>>)
               \o <<Elem("allocator", v.allocator), Elem("modules", v.modules),
                    Elem("environment", LogEnvironment(v.buildInfo))>>]

Called(op) == \E i \in 1..Len(history) : history[i].op = op

\* Each reporter is applied once to the provider and builder of the run.
CallAppendBuildInfo ==
    /\ ~Called("appendBuildInfo")
    /\ result' = AppendBuildInfo(self, build, result)
    /\ history' = Append(history, [op |-> "appendBuildInfo",
                                   from |-> Len(result) + 1, to |-> Len(result')])
    /\ UNCHANGED <<globalVersionInfo, fallbackVersionInfo, heap, pc, log,
                   build, self, otherVersion, sameMajor>>

CallLogBuildInfo ==
    /\ ~Called("logBuildInfo")
    /\ log' = Append(log, BuildInfoRecord(self, build))
    /\ history' = Append(history, [op |-> "logBuildInfo", at |-> Len(log')])
    /\ UNCHANGED <<globalVersionInfo, fallbackVersionInfo, heap, pc,
                   build, self, otherVersion, sameMajor, result>>

\* The build configurations: the target OS family, the TLS provider with the
\* version strings of the library, the debug flag and the pointer size.
TlsBuilds ==
    {[ssl |-> "openssl", sslRunning |-> "OpenSSL 1.1.1f", sslCompiled |-> "OpenSSL 1.1.1d"],
     [ssl |-> "windows", sslRunning |-> "", sslCompiled |-> ""],
     [ssl |-> "apple", sslRunning |-> "", sslCompiled |-> ""],
     [ssl |-> "none", sslRunning |-> "", sslCompiled |-> ""]}

Builds ==
    {[win32 |-> w, ssl |-> t.ssl, sslRunning |-> t.sslRunning,
      sslCompiled |-> t.sslCompiled, kDebugBuild |-> d, sizeofVoidPtr |-> p] :
        w \in BOOLEAN, t \in TlsBuilds, d \in BOOLEAN, p \in {4, 8}}

\* The build-info fields explored: in the report or not, with a value or empty.
BuildInfoFields ==
    {[key |-> "cc", value |-> "gcc", inBuildInfo |-> TRUE],
     [key |-> "ccflags", value |-> "-O2", inBuildInfo |-> TRUE],
     [key |-> "cxxflags", value |-> "", inBuildInfo |-> TRUE],
     [key |-> "distmod", value |-> "", inBuildInfo |-> FALSE],
     [key |-> "target_os", value |-> "linux", inBuildInfo |-> FALSE]}

BuildInfoLists == UNION {[1..n -> BuildInfoFields] : n \in 0..MaxFields}

ReportedVersionInfo(bi) ==
    [majorVersion |-> 1, minorVersion |-> 2, patchVersion |-> 3, extraVersion |-> 4,
     version |-> "1.2.3-rc4", gitVersion |-> "abc123", modules |-> <<"enterprise">>,
     allocator |-> "tcmalloc", jsEngine |-> "mozjs", targetMinOS |-> "Windows 7",
     buildInfo |-> bi]

\* The builders appendBuildInfo is handed: empty, or holding a field already.
Builders == {<<>>, <<Elem("ok", 1)>>}

InitReport ==
    /\ globalVersionInfo = nullptr
    /\ fallbackVersionInfo = nullptr
    /\ heap = {}
    /\ pc = "running"
    /\ log = <<>>
    /\ history = <<>>
    /\ build \in Builds
    /\ self \in {FallbackVersionInfo} \cup {ReportedVersionInfo(bi) : bi \in BuildInfoLists}
    /\ otherVersion = <<>>
    /\ sameMajor = FALSE
    /\ result \in Builders

NextReport ==
    \/ CallAppendBuildInfo
    \/ CallLogBuildInfo

SpecReport == InitReport /\ [][NextReport]_vars

Init ==
    /\ globalVersionInfo = nullptr
    /\ fallbackVersionInfo = nullptr
    /\ heap = {}
    /\ pc = "running"
    /\ log = <<>>
    /\ history = <<>>
    /\ build = NoBuild
    /\ self = FallbackVersionInfo
    /\ otherVersion = <<>>
    /\ sameMajor = FALSE
    /\ result = <<>>

Next ==
    \/ \E handler \in ProviderPtrs \cup {nullptr} : Enable(handler)
    \/ \E action \in NotEnabledAction : Instance(action)
    \/ FassertFailed

Spec == Init /\ [][Next]_vars

(***************************************************************************)
(* Reading the call history                                                *)
(***************************************************************************)
Calls == 1..Len(history)

IsEnable(i) == history[i].op = "enable"

IsInstance(i) == history[i].op = "instance"

\* The last enable call made before call j (0 when there is none).
LastEnableBefore(j) ==
    LET E == {i \in 1..(j - 1) : IsEnable(i)}
    IN IF E = {} THEN 0 ELSE CHOOSE i \in E : \A k \in E : k <= i

\* The provider the calls made before call j left registered.
RegisteredBefore(j) ==
    IF LastEnableBefore(j) = 0 THEN nullptr ELSE history[LastEnableBefore(j)].handler

(***************************************************************************)
(* C1: after enable(P) with a provider P, every instance call made before  *)
(* the next enable call returns exactly P, under either policy, and        *)
(* returns to its caller (the process is not terminated); a later          *)
(* enable(Q) makes instance return Q.                                      *)
(***************************************************************************)
C1_InstanceReturnsLastEnabled ==
    \A i \in Calls : \A j \in Calls :
        ( /\ i < j
          /\ IsEnable(i)
          /\ history[i].handler # nullptr
          /\ IsInstance(j)
          /\ LastEnableBefore(j) = i )
        => /\ history[j].returned
           /\ history[j].ret = history[i].handler

C1_Witness ==
    \E i \in Calls : \E j \in Calls : \E k \in Calls :
        /\ i < j /\ j < k
        /\ IsEnable(i) /\ IsEnable(j) /\ IsInstance(k)
        /\ history[i].handler # nullptr
        /\ history[j].handler # nullptr
        /\ history[i].handler # history[j].handler
        /\ history[k].action = "kAbortProcess"
        /\ history[k].returned
        /\ history[k].ret = history[j].handler

(***************************************************************************)
(* C2: an instance(kFallback) call made before any enable call returns a   *)
(* provider whose fields are the fallback sentinels.                       *)
(***************************************************************************)
BeforeAnyEnable(j) == \A i \in 1..(j - 1) : ~IsEnable(i)

ScalarSentinels(v) ==
    /\ v.majorVersion = 0 /\ v.minorVersion = 0
    /\ v.patchVersion = 0 /\ v.extraVersion = 0
    /\ v.version = "unknown" /\ v.allocator = "unknown"
    /\ v.jsEngine = "unknown" /\ v.targetMinOS = "unknown"
    /\ v.gitVersion = "none"

\* C2 as claimed: modules and buildInfo are both empty lists.
C2_AsClaimed ==
    \A j \in Calls :
        (IsInstance(j) /\ history[j].action = "kFallback" /\ BeforeAnyEnable(j))
        => /\ history[j].returned
           /\ ScalarSentinels(Deref(history[j].ret))
           /\ Deref(history[j].ret).modules = <<>>
           /\ Deref(history[j].ret).buildInfo = <<>>

\* C2 as amended: modules is the one-element list <<"unknown">>; buildInfo is
\* the empty list; the scalar fields are as claimed.
C2_FallbackSentinels ==
    \A j \in Calls :
        (IsInstance(j) /\ history[j].action = "kFallback" /\ BeforeAnyEnable(j))
        => /\ history[j].returned
           /\ ScalarSentinels(Deref(history[j].ret))
           /\ Deref(history[j].ret).modules = <<"unknown">>
           /\ Deref(history[j].ret).buildInfo = <<>>

C2_Witness ==
    \E j \in Calls :
        /\ IsInstance(j) /\ history[j].action = "kFallback" /\ BeforeAnyEnable(j)
        /\ history[j].returned
        /\ history[j].ret \in heap

(***************************************************************************)
(* C3: with no provider registered, instance with the fatal policy does    *)
(* not return: it logs the diagnostic and then terminates the process, the *)
(* diagnostic being in the log before the process ends. No other call      *)
(* fails to return, and nothing runs after the one that does.              *)
(***************************************************************************)
C3_FatalPath ==
    /\ \A j \in Calls :
          IsInstance(j) =>
             ( ~history[j].returned
               <=> (RegisteredBefore(j) = nullptr /\ history[j].action # "kFallback") )
    /\ \A j \in Calls : (IsInstance(j) /\ ~history[j].returned) => j = Len(history)
    /\ pc # "running"
          <=> (history # <<>> /\ IsInstance(Len(history))
               /\ ~history[Len(history)].returned)
    /\ pc \in {"fassertFailed", "terminated"} => log = <<FatalDiagnostic>>
    /\ pc = "running" => log = <<>>

C3_Witness ==
    /\ pc = "terminated"
    /\ log = <<FatalDiagnostic>>
    /\ IsInstance(Len(history))
    /\ history[Len(history)].action = "kAbortProcess"
    /\ ~history[Len(history)].returned
    /\ \E i \in Calls : IsEnable(i)

(***************************************************************************)
(* C4: once enable has been called, the registry is never empty again and  *)
(* instance neither returns the fallback nor takes the fatal path.         *)
(***************************************************************************)
\* C4 as claimed: whatever the arguments of the enable calls.
C4_AsClaimed ==
    /\ (\E i \in Calls : IsEnable(i)) => globalVersionInfo # nullptr
    /\ \A i \in Calls : \A j \in Calls :
          (i < j /\ IsEnable(i) /\ IsInstance(j))
          => (history[j].returned /\ history[j].ret \notin heap)

\* Call i registered a provider and no enable(nullptr) was made after it and
\* before call j.
RegisteredSince(i, j) ==
    /\ i < j
    /\ IsEnable(i)
    /\ history[i].handler # nullptr
    /\ \A k \in (i + 1)..(j - 1) : IsEnable(k) => history[k].handler # nullptr

\* C4 as amended: the registry stays non-empty as long as no enable call
\* passes a null pointer; enable(nullptr) empties it again.
C4_NonEmptyUntilNullEnable ==
    /\ (\E i \in Calls : RegisteredSince(i, Len(history) + 1))
          => globalVersionInfo # nullptr
    /\ \A i \in Calls : \A j \in Calls :
          (RegisteredSince(i, j) /\ IsInstance(j))
          => /\ history[j].returned
             /\ history[j].ret \in ProviderPtrs
             /\ history[j].ret \notin heap
    /\ (history # <<>> /\ pc = "running" /\ IsEnable(Len(history))
        /\ history[Len(history)].handler = nullptr)
          => globalVersionInfo = nullptr

C4_Witness ==
    \E i \in Calls : \E k \in Calls : \E j \in Calls :
        /\ i < k /\ k < j
        /\ RegisteredSince(i, j)
        /\ IsEnable(k)
        /\ IsInstance(j)
        /\ history[j].action = "kFallback"
        /\ history[j].returned
        /\ history[j].ret \in ProviderPtrs

(***************************************************************************)
(* C10: at most one fallback object is ever allocated; it is allocated by  *)
(* the first instance(kFallback) call that finds the registry empty and by *)
(* no other call; every instance(kFallback) call that finds the registry   *)
(* empty returns that one object.                                          *)
(***************************************************************************)
FallbackCall(j) ==
    /\ IsInstance(j)
    /\ history[j].action = "kFallback"
    /\ RegisteredBefore(j) = nullptr

C10_SingleFallback ==
    /\ Cardinality(heap) <= 1
    /\ heap \cap ProviderPtrs = {}
    /\ heap # {} <=> (\E j \in Calls : FallbackCall(j))
    /\ \A j \in Calls :
          FallbackCall(j) => /\ history[j].returned
                             /\ history[j].ret \in heap
                             /\ history[j].ret = fallbackVersionInfo
    /\ \A j \in Calls :
          (IsInstance(j) /\ history[j].returned /\ history[j].ret \in heap)
          => FallbackCall(j)
    /\ \A i \in Calls : \A j \in Calls :
          (FallbackCall(i) /\ FallbackCall(j)) => history[i].ret = history[j].ret

C10_Witness ==
    \E i \in Calls : \E k \in Calls : \E j \in Calls :
        /\ i < k /\ k < j
        /\ FallbackCall(i) /\ FallbackCall(j)
        /\ IsEnable(k) /\ history[k].handler # nullptr
        /\ history[i].ret = history[j].ret
        /\ history[i].ret \in heap

(***************************************************************************)
(* C5: isSameMajorVersion(s) returns true exactly when s begins with one   *)
(* or more digits, a '.', one or more digits and a further '.', and the    *)
(* two numbers equal the provider's major and minor version; for every     *)
(* other string it returns false. It always returns a boolean.             *)
(***************************************************************************)
Pow10(n) == 10 ^ n

\* The number a string of digits denotes, by the weight of each position.
RECURSIVE Denotes(_)
Denotes(d) ==
    IF d = <<>> THEN 0
    ELSE DigitValue(d[1]) * Pow10(Len(d) - 1) + Denotes(Tail(d))

\* s is a digits, '.', digits (positions a+2..b), '.', then anything.
HasMajorMinorPrefix(s, a, b) ==
    /\ 1 <= a /\ a + 2 <= b /\ b + 1 <= Len(s)
    /\ \A k \in 1..a : IsDigit(s[k])
    /\ s[a + 1] = "."
    /\ \A k \in (a + 2)..b : IsDigit(s[k])
    /\ s[b + 1] = "."

Compared == history # <<>> /\ history[1].op = "isSameMajorVersion"

C5_SameMajorMinor ==
    Compared =>
    /\ sameMajor \in BOOLEAN
    /\ sameMajor <=>
         \E a \in 1..Len(otherVersion) : \E b \in 1..Len(otherVersion) :
            /\ HasMajorMinorPrefix(otherVersion, a, b)
            /\ Denotes(SubSeq(otherVersion, 1, a)) = self.majorVersion
            /\ Denotes(SubSeq(otherVersion, a + 2, b)) = self.minorVersion

\* A match: a multi-digit component and text after the second dot.
C5_Witness ==
    /\ Compared
    /\ sameMajor
    /\ self.majorVersion = 42
    /\ otherVersion[Len(otherVersion)] # "."

(***************************************************************************)
(* Reading the reporters' output                                           *)
(***************************************************************************)
CallOf(op) == history[CHOOSE i \in 1..Len(history) : history[i].op = op]

\* The elements the appendBuildInfo call appended to its builder.
Appended == SubSeq(result, CallOf("appendBuildInfo").from, CallOf("appendBuildInfo").to)

KeysOf(doc) == [i \in 1..Len(doc) |-> doc[i].k]

HasKey(doc, key) == \E i \in 1..Len(doc) : doc[i].k = key

Field(doc, key) == doc[CHOOSE i \in 1..Len(doc) : doc[i].k = key].v

\* The record the logBuildInfo call emitted.
Emitted == log[CallOf("logBuildInfo").at]

(***************************************************************************)
(* C6: appendBuildInfo appends the top-level keys version, gitVersion,     *)
(* [targetMinOS], modules, allocator, javascriptEngine, sysInfo,           *)
(* versionArray, openssl, buildEnvironment, bits, debug, maxBsonObjectSize *)
(* in this order, each once; sysInfo is "deprecated"; targetMinOS is       *)
(* there exactly on the Windows target; the builder's earlier content is   *)
(* left as it was.                                                         *)
(***************************************************************************)
KeysBeforeTargetMinOS == <<"version", "gitVersion">>

KeysAfterTargetMinOS ==
    <<"modules", "allocator", "javascriptEngine", "sysInfo", "versionArray",
      "openssl", "buildEnvironment", "bits", "debug", "maxBsonObjectSize">>

C6_TopLevelKeys ==
    Called("appendBuildInfo") =>
    LET call == CallOf("appendBuildInfo")
        app == Appended
        keys == KeysOf(app)
    IN /\ keys = IF build.win32
                 THEN KeysBeforeTargetMinOS \o <<"targetMinOS">> \o KeysAfterTargetMinOS
                 ELSE KeysBeforeTargetMinOS \o KeysAfterTargetMinOS
       /\ \A i \in 1..Len(keys) : \A j \in 1..Len(keys) : keys[i] = keys[j] => i = j
       /\ Field(app, "sysInfo") = "deprecated"
       /\ HasKey(app, "targetMinOS") <=> build.win32
       /\ call.to = Len(result)
       /\ SubSeq(result, 1, call.from - 1) \in Builders

C6_Witness ==
    /\ Called("appendBuildInfo")
    /\ ~build.win32
    /\ CallOf("appendBuildInfo").from = 2
    /\ Len(Appended) = 12
    /\ Appended[3].k = "modules"

(***************************************************************************)
(* C7: buildEnvironment of the report holds exactly the buildInfo entries  *)
(* with inBuildInfo, key -> value, in their order, empty values included;  *)
(* environment of the log record holds exactly the entries with            *)
(* inBuildInfo and a non-empty value, each as a one-key document, in their *)
(* order; the two differ by exactly the entries with inBuildInfo and an    *)
(* empty value.                                                            *)
(***************************************************************************)
InReport(e) == e.inBuildInfo

InLog(e) == e.inBuildInfo /\ e.value # ""

NonEmptyValue(el) == el.v # ""

ReportEnv == Field(Appended, "buildEnvironment")

LogEnv == Field(Emitted.attrs, "environment")

C7_EnvironmentFilters ==
    /\ Called("appendBuildInfo") =>
          LET kept == SelectSeq(self.buildInfo, InReport)
              env == ReportEnv
          IN /\ Len(env) = Len(kept)
             /\ \A i \in 1..Len(kept) : env[i] = Elem(kept[i].key, kept[i].value)
    /\ Called("logBuildInfo") =>
          LET kept == SelectSeq(self.buildInfo, InLog)
              env == LogEnv
          IN /\ Len(env) = Len(kept)
             /\ \A i \in 1..Len(kept) : env[i] = <<Elem(kept[i].key, kept[i].value)>>
    /\ (Called("appendBuildInfo") /\ Called("logBuildInfo")) =>
          LET report == ReportEnv
              logged == LogEnv
              valued == SelectSeq(report, NonEmptyValue)
          IN /\ Len(logged) = Len(valued)
             /\ \A i \in 1..Len(valued) : logged[i] = <<valued[i]>>
             /\ Len(report) - Len(logged)
                   = Cardinality({i \in 1..Len(self.buildInfo) :
                                     /\ self.buildInfo[i].inBuildInfo
                                     /\ self.buildInfo[i].value = ""})

C7_Witness ==
    /\ Called("appendBuildInfo") /\ Called("logBuildInfo")
    /\ Len(self.buildInfo) = 3
    /\ Len(ReportEnv) = 3
    /\ Len(LogEnv) = 2
    /\ ReportEnv[2].v = ""
    /\ ReportEnv[1].k # ReportEnv[3].k

(***************************************************************************)
(* C8: the openssl sub-document of the report, by TLS configuration.       *)
(***************************************************************************)
OpensslDoc == Field(Appended, "openssl")

\* C8 as claimed: running and compiled are both there in every configuration.
C8_AsClaimed ==
    Called("appendBuildInfo") =>
    /\ HasKey(OpensslDoc, "running")
    /\ HasKey(OpensslDoc, "compiled")

\* C8 as amended: running is there in every configuration (the runtime
\* version for OpenSSL, the backend name for SChannel and Secure Transport,
\* "disabled" with TLS off); compiled is there only for OpenSSL (the version
\* compiled against) and with TLS off ("disabled"), and is absent for SChannel
\* and Secure Transport.
C8_OpensslDocument ==
    Called("appendBuildInfo") =>
    LET doc == OpensslDoc
    IN /\ HasKey(doc, "running")
       /\ doc[1].k = "running"
       /\ HasKey(doc, "compiled") <=> build.ssl \in {"openssl", "none"}
       /\ Len(doc) = IF build.ssl \in {"openssl", "none"} THEN 2 ELSE 1
       /\ build.ssl = "openssl" =>
             /\ Field(doc, "running") = build.sslRunning
             /\ Field(doc, "compiled") = build.sslCompiled
       /\ build.ssl = "windows" => Field(doc, "running") = "Windows SChannel"
       /\ build.ssl = "apple" => Field(doc, "running") = "Apple Secure Transport"
       /\ build.ssl = "none" =>
             /\ Field(doc, "running") = "disabled"
             /\ Field(doc, "compiled") = "disabled"

C8_Witness ==
    /\ Called("appendBuildInfo")
    /\ build.ssl = "apple"
    /\ OpensslDoc = <<Elem("running", "Apple Secure Transport")>>

(***************************************************************************)
(* C9: versionArray of the report is the array of the four integers        *)
(* major, minor, patch, extra of the provider, in this order.              *)
(***************************************************************************)
C9_VersionArray ==
    Called("appendBuildInfo") =>
    LET arr == Field(Appended, "versionArray")
    IN /\ Len(arr) = 4
       /\ \A i \in 1..4 : arr[i] \in Int
       /\ arr[1] = self.majorVersion
       /\ arr[2] = self.minorVersion
       /\ arr[3] = self.patchVersion
       /\ arr[4] = self.extraVersion

C9_Witness ==
    /\ Called("appendBuildInfo")
    /\ self.majorVersion = 1 /\ self.minorVersion = 2
    /\ self.patchVersion = 3 /\ self.extraVersion = 4
    /\ Field(Appended, "versionArray") = <<1, 2, 3, 4>>

====
